---- MODULE Spec2Model ----
(***************************************************************************)
(* A model of the go-futures Future[T]: its state machine, the one-shot    *)
(* done channel, Then-chaining and callback registration.                  *)
(*                                                                         *)
(* Every execution context (a caller's thread or a goroutine) is a call    *)
(* stack of frames; the top frame takes the next step.  Goroutines have no *)
(* identity in Go, so they are kept in a bag of stacks.                    *)
(***************************************************************************)
EXTENDS Bags, FiniteSets, Integers, Sequences, TLC

\* ---- bounds ----
NumThreads == 2
MaxCalls   == 2
MaxFutures == 2

Threads == 1..NumThreads

\* ---- futures/state.go ----
Pending   == 0
Running   == 1
Fulfilled == 2
Rejected  == 3

Terminal == {Fulfilled, Rejected}

\* The zero value of T (any) and of error.
Nil == <<>>

\* What a user-supplied function (a task or a continuation) does when called:
\* it succeeds, or it fails.
Kinds == {"ok", "fail"}

VARIABLES
    futures,      \* future id -> the fields of the Future struct
    threads,      \* caller thread -> its call stack
    goroutines,   \* bag of the call stacks of the live goroutines
    trace,        \* future id -> what has been observed of it so far
    ncalls        \* number of calls the caller threads have made

vars == <<futures, threads, goroutines, trace, ncalls>>

\* ---- frames --------------------------------------------------------------
\* A callback passed to OnSuccess / OnFailure: a closure with an identity and
\* a body, the calls it makes on the future it is registered on.  The body
\* <<>> returns at once, <<"State">> calls State(), <<"OnSuccess", "State">>
\* registers a success callback that calls State(), and so on.
Callback(id, body) == [id |-> id, body |-> body]
NoCallback == Callback(0, <<>>)

Frame(op, pc, f) ==
    [op |-> op, pc |-> pc, f |-> f, cb |-> NoCallback, kind |-> "",
     res |-> Nil, err |-> Nil, cbs |-> <<>>]

\* The frame of a callback that is being invoked on future f.
CallbackFrame(f, cb) ==
    [Frame("callback", IF cb.body = <<>> THEN "body" ELSE "call", f)
        EXCEPT !.cb = cb]

Top(s) == s[Len(s)]
Pop(s) == SubSeq(s, 1, Len(s) - 1)
Push(s, fr) == Append(s, fr)
SetTop(s, fr) == [s EXCEPT ![Len(s)] = fr]

\* Return (res, err) to the caller's frame, if there is one.
Return(s, res, err) ==
    IF Len(s) = 1 THEN <<>>
    ELSE [Pop(s) EXCEPT ![Len(s) - 1].res = res, ![Len(s) - 1].err = err]

\* The execution contexts: thread = 0 marks a goroutine.
Contexts ==
    {[thread |-> t, stack |-> threads[t]] : t \in {u \in Threads : threads[u] # <<>>}}
    \cup {[thread |-> 0, stack |-> s] : s \in BagToSet(goroutines)}

\* The context's stack becomes s, and the stacks in spawn start as goroutines.
Put(ctx, s, spawn) ==
    IF ctx.thread # 0
    THEN /\ threads' = [threads EXCEPT ![ctx.thread] = s]
         /\ goroutines' = goroutines (+) SetToBag(spawn)
    ELSE /\ threads' = threads
         /\ goroutines' = ((goroutines (-) SetToBag({ctx.stack}))
                            (+) (IF s = <<>> THEN EmptyBag ELSE SetToBag({s})))
                            (+) SetToBag(spawn)

At(ctx, op, pc) == Top(ctx.stack).op = op /\ Top(ctx.stack).pc = pc

\* ---- the Future struct ---------------------------------------------------
NewFuture(task) ==
    [task |-> task, mutex |-> FALSE, result |-> Nil, err |-> Nil,
     state |-> Pending, done |-> FALSE, next |-> 0,
     onSuccess |-> <<>>, onFailure |-> <<>>, started |-> FALSE]

NoTrace ==
    [calls |-> {}, taskCalls |-> 0, contArgs |-> <<>>, produced |-> <<>>,
     closes |-> 0, returned |-> <<>>, begun |-> <<>>, ended |-> <<>>,
     lastState |-> -1, direct |-> {}, regs |-> {}]

\* The (value, error) a user function of the given kind returns for link f:
\* the argument extended by f, and on failure the error <<f>> as well.  A
\* failing function is free to return a non-nil value next to its error.
Outcome(kind, f, arg) ==
    IF kind = "ok" THEN <<Append(arg, f), Nil>> ELSE <<Append(arg, f), <<f>>>>

\* An unsynchronised read of f.started: the current value or the stale initial one.
ReadStarted(f) == {futures[f].started, FALSE}

Init ==
    /\ \E k \in Kinds : futures = (1 :> NewFuture([parent |-> 0, kind |-> k]))
    /\ threads = [t \in Threads |-> <<>>]
    /\ goroutines = EmptyBag
    /\ trace = (1 :> NoTrace)
    /\ ncalls = 0

\* Result without the auto-start of lines 114-116.
EnterResultNoStart(f) == {<<Frame("Result", "wait", f)>>}

\* Then without the go f.Start() of lines 36-38.
EnterThenNoStart(f) == {{}}

\* ---- entering Result and Then --------------------------------------------
\* Result, lines 114-116: auto-start on an unlocked read of f.started; the
\* frames the call leaves on the stack, Start (if taken) on top.
EnterResult(f) ==
    {IF seen THEN <<Frame("Result", "wait", f)>>
     ELSE <<Frame("Result", "wait", f), Frame("Start", "lock", f)>>
        : seen \in ReadStarted(f)}

\* Then, lines 36-38: go f.Start() on an unlocked read of f.started; the
\* goroutines the call spawns.
EnterThen(f) ==
    {IF seen THEN {} ELSE {<<Frame("Start", "lock", f)>>}
        : seen \in ReadStarted(f)}

\* ---- calls made by the caller threads ------------------------------------
Call(t, f, op, stack, spawn) ==
    /\ threads[t] = <<>>
    /\ threads' = [threads EXCEPT ![t] = stack]
    /\ goroutines' = goroutines (+) SetToBag(spawn)
    /\ trace' = [trace EXCEPT
                    ![f].calls = @ \cup ({op} \cap {"Start", "Result", "Then"}),
                    ![f].direct = @ \cup {op},
                    ![f].regs = @ \cup (IF op \in {"OnSuccess", "OnFailure"}
                                        THEN {<<stack[1].cb, op>>} ELSE {})]
    /\ ncalls' = ncalls + 1
    /\ UNCHANGED futures

CallStart(t, f) == Call(t, f, "Start", <<Frame("Start", "lock", f)>>, {})
CallState(t, f) == Call(t, f, "State", <<Frame("State", "lock", f)>>, {})
CallResult(t, f) ==
    \E stack \in EnterResult(f) : Call(t, f, "Result", stack, {})
\* Then, for as long as fewer than links futures exist.
CallThenWithin(t, f, k, links) ==
    /\ Cardinality(DOMAIN futures) < links
    /\ \E spawn \in EnterThen(f) :
          Call(t, f, "Then", <<[Frame("Then", "link", f) EXCEPT !.kind = k]>>, spawn)
CallThen(t, f, k) == CallThenWithin(t, f, k, MaxFutures)
\* OnSuccess / OnFailure with a fresh callback of the given body.
CallOnSuccessWith(t, f, body) ==
    Call(t, f, "OnSuccess",
         <<[Frame("OnSuccess", "lock", f) EXCEPT !.cb = Callback(ncalls + 1, body)]>>, {})
CallOnFailureWith(t, f, body) ==
    Call(t, f, "OnFailure",
         <<[Frame("OnFailure", "lock", f) EXCEPT !.cb = Callback(ncalls + 1, body)]>>, {})
CallOnSuccess(t, f) == CallOnSuccessWith(t, f, <<>>)
CallOnFailure(t, f) == CallOnFailureWith(t, f, <<>>)

\* Start without its guard: every call sets Running and spawns the goroutine.
StartNoGuard(ctx) ==
    LET fr == Top(ctx.stack)
        f  == fr.f
    IN  /\ At(ctx, "Start", "lock")
        /\ ~futures[f].mutex
        /\ futures' = [futures EXCEPT ![f].started = TRUE, ![f].state = Running]
        /\ Put(ctx, Pop(ctx.stack), {<<Frame("run", "task", f)>>})
        /\ UNCHANGED <<trace, ncalls>>

\* Start whose guard lets a completed future through (it only refuses Running).
StartRestarts(ctx) ==
    LET fr == Top(ctx.stack)
        f  == fr.f
    IN  /\ At(ctx, "Start", "lock")
        /\ ~futures[f].mutex
        /\ IF futures[f].state = Running
           THEN /\ Put(ctx, Pop(ctx.stack), {})
                /\ UNCHANGED futures
           ELSE /\ futures' = [futures EXCEPT ![f].started = TRUE,
                                              ![f].state = Running]
                /\ Put(ctx, Pop(ctx.stack), {<<Frame("run", "task", f)>>})
        /\ UNCHANGED <<trace, ncalls>>

\* Start that makes the transition to Running and forgets the goroutine.
StartNoGo(ctx) ==
    LET fr == Top(ctx.stack)
        f  == fr.f
    IN  /\ At(ctx, "Start", "lock")
        /\ ~futures[f].mutex
        /\ IF futures[f].state # Pending \/ futures[f].started
           THEN /\ Put(ctx, Pop(ctx.stack), {})
                /\ UNCHANGED futures
           ELSE /\ futures' = [futures EXCEPT ![f].started = TRUE,
                                              ![f].state = Running]
                /\ Put(ctx, Pop(ctx.stack), {})
        /\ UNCHANGED <<trace, ncalls>>

\* ---- Future.Start --------------------------------------------------------
\* Lines 61-70: the guarded transition Pending -> Running, then go func().
Start(ctx) ==
    LET fr == Top(ctx.stack)
        f  == fr.f
    IN  /\ At(ctx, "Start", "lock")
        /\ ~futures[f].mutex
        /\ IF futures[f].state # Pending \/ futures[f].started
           THEN /\ Put(ctx, Pop(ctx.stack), {})
                /\ UNCHANGED futures
           ELSE /\ futures' = [futures EXCEPT ![f].started = TRUE,
                                              ![f].state = Running]
                /\ Put(ctx, Pop(ctx.stack), {<<Frame("run", "task", f)>>})
        /\ UNCHANGED <<trace, ncalls>>

\* Line 71: res, err := f.task().  The caller's task returns its outcome;
\* the task of a chained future (lines 41-42) calls Result on its parent.
RunTask(ctx) ==
    LET fr == Top(ctx.stack)
        f  == fr.f
        parent == futures[f].task.parent
        out == Outcome(futures[f].task.kind, f, Nil)
    IN  /\ At(ctx, "run", "task")
        /\ IF parent = 0
           THEN /\ trace' = [trace EXCEPT ![f].taskCalls = @ + 1,
                                          ![f].produced = Append(@, out)]
                /\ Put(ctx, SetTop(ctx.stack,
                         [fr EXCEPT !.pc = "complete", !.res = out[1],
                                    !.err = out[2]]), {})
           ELSE /\ trace' = [trace EXCEPT ![f].taskCalls = @ + 1,
                                          ![parent].calls = @ \cup {"Result"}]
                /\ \E stack \in EnterResult(parent) :
                      Put(ctx, <<[fr EXCEPT !.pc = "complete"],
                                 Frame("task", "got", f)>> \o stack, {})
        /\ UNCHANGED <<futures, ncalls>>

\* The completion step that forgets to store the outcome in the future.
RunCompleteNoAssign(ctx) ==
    LET fr == Top(ctx.stack)
        f  == fr.f
    IN  /\ At(ctx, "run", "complete")
        /\ ~futures[f].mutex
        /\ IF futures[f].state # Running
           THEN /\ Put(ctx, Pop(ctx.stack), {})
                /\ UNCHANGED futures
           ELSE IF fr.err # Nil
           THEN /\ futures' = [futures EXCEPT ![f].state = Rejected]
                /\ Put(ctx, SetTop(ctx.stack,
                         [fr EXCEPT !.pc = "callbacks",
                                    !.cbs = futures[f].onFailure]), {})
           ELSE /\ futures' = [futures EXCEPT ![f].state = Fulfilled]
                /\ Put(ctx, SetTop(ctx.stack,
                         [fr EXCEPT !.pc = "callbacks",
                                    !.cbs = futures[f].onSuccess]), {})
        /\ UNCHANGED <<trace, ncalls>>

\* The completion path that keeps the mutex locked while the callbacks run.
RunCompleteKeepsLock(ctx) ==
    LET fr == Top(ctx.stack)
        f  == fr.f
    IN  /\ At(ctx, "run", "complete")
        /\ ~futures[f].mutex
        /\ IF futures[f].state # Running
           THEN /\ Put(ctx, Pop(ctx.stack), {})
                /\ UNCHANGED futures
           ELSE IF fr.err # Nil
           THEN /\ futures' = [futures EXCEPT ![f].err = fr.err,
                                              ![f].state = Rejected,
                                              ![f].mutex = TRUE]
                /\ Put(ctx, SetTop(ctx.stack,
                         [fr EXCEPT !.pc = "callbacks",
                                    !.cbs = futures[f].onFailure]), {})
           ELSE /\ futures' = [futures EXCEPT ![f].result = fr.res,
                                              ![f].state = Fulfilled,
                                              ![f].mutex = TRUE]
                /\ Put(ctx, SetTop(ctx.stack,
                         [fr EXCEPT !.pc = "callbacks",
                                    !.cbs = futures[f].onSuccess]), {})
        /\ UNCHANGED <<trace, ncalls>>

\* The completion path that stores the outcome and runs the callbacks while
\* the state is still Running.
RunCompleteNoState(ctx) ==
    LET fr == Top(ctx.stack)
        f  == fr.f
    IN  /\ At(ctx, "run", "complete")
        /\ ~futures[f].mutex
        /\ IF fr.err # Nil
           THEN /\ futures' = [futures EXCEPT ![f].err = fr.err]
                /\ Put(ctx, SetTop(ctx.stack,
                         [fr EXCEPT !.pc = "callbacks",
                                    !.cbs = futures[f].onFailure]), {})
           ELSE /\ futures' = [futures EXCEPT ![f].result = fr.res]
                /\ Put(ctx, SetTop(ctx.stack,
                         [fr EXCEPT !.pc = "callbacks",
                                    !.cbs = futures[f].onSuccess]), {})
        /\ UNCHANGED <<trace, ncalls>>

\* Lines 73-97: record the outcome and snapshot the callbacks.
RunComplete(ctx) ==
    LET fr == Top(ctx.stack)
        f  == fr.f
    IN  /\ At(ctx, "run", "complete")
        /\ ~futures[f].mutex
        /\ IF futures[f].state # Running
           THEN /\ Put(ctx, Pop(ctx.stack), {})
                /\ UNCHANGED futures
           ELSE IF fr.err # Nil
           THEN /\ futures' = [futures EXCEPT ![f].err = fr.err,
                                              ![f].state = Rejected]
                /\ Put(ctx, SetTop(ctx.stack,
                         [fr EXCEPT !.pc = "callbacks",
                                    !.cbs = futures[f].onFailure]), {})
           ELSE /\ futures' = [futures EXCEPT ![f].result = fr.res,
                                              ![f].state = Fulfilled]
                /\ Put(ctx, SetTop(ctx.stack,
                         [fr EXCEPT !.pc = "callbacks",
                                    !.cbs = futures[f].onSuccess]), {})
        /\ UNCHANGED <<trace, ncalls>>

\* The callback loop walking the snapshot from its last element.
RunCallbackLastFirst(ctx) ==
    LET fr == Top(ctx.stack)
        f  == fr.f
        cb == fr.cbs[Len(fr.cbs)]
    IN  /\ At(ctx, "run", "callbacks")
        /\ fr.cbs # <<>>
        /\ trace' = [trace EXCEPT ![f].begun = Append(@,
                        [cb |-> cb, res |-> IF fr.err # Nil THEN Nil ELSE fr.res,
                         err |-> fr.err, late |-> FALSE])]
        /\ Put(ctx, Push(SetTop(ctx.stack,
                              [fr EXCEPT !.cbs = SubSeq(@, 1, Len(@) - 1)]),
                         CallbackFrame(f, cb)), {})
        /\ UNCHANGED <<futures, ncalls>>

\* Lines 88-90 and 100-102: the next callback of the snapshot is called.
RunCallback(ctx) ==
    LET fr == Top(ctx.stack)
        f  == fr.f
        cb == Head(fr.cbs)
    IN  /\ At(ctx, "run", "callbacks")
        /\ fr.cbs # <<>>
        /\ trace' = [trace EXCEPT ![f].begun = Append(@,
                        [cb |-> cb, res |-> IF fr.err # Nil THEN Nil ELSE fr.res,
                         err |-> fr.err, late |-> FALSE])]
        /\ Put(ctx, Push(SetTop(ctx.stack, [fr EXCEPT !.cbs = Tail(@)]),
                         CallbackFrame(f, cb)), {})
        /\ UNCHANGED <<futures, ncalls>>

\* close(f.done) placed before the callback loop instead of after it.
RunCloseEarly(ctx) ==
    LET fr == Top(ctx.stack)
        f  == fr.f
    IN  /\ At(ctx, "run", "callbacks")
        /\ IF ~futures[f].done
           THEN /\ futures' = [futures EXCEPT ![f].done = TRUE]
                /\ trace' = [trace EXCEPT ![f].closes = @ + 1]
                /\ Put(ctx, IF fr.cbs = <<>> THEN Pop(ctx.stack) ELSE ctx.stack, {})
           ELSE /\ fr.cbs = <<>>
                /\ Put(ctx, Pop(ctx.stack), {})
                /\ UNCHANGED <<futures, trace>>
        /\ UNCHANGED ncalls

\* Line 106: close(f.done)
RunClose(ctx) ==
    LET fr == Top(ctx.stack)
        f  == fr.f
    IN  /\ At(ctx, "run", "callbacks")
        /\ fr.cbs = <<>>
        /\ futures' = [futures EXCEPT ![f].done = TRUE]
        /\ trace' = [trace EXCEPT ![f].closes = @ + 1]
        /\ Put(ctx, Pop(ctx.stack), {})
        /\ UNCHANGED ncalls

\* The frames a callback pushes, and the goroutines it spawns, when it calls
\* op on future f; cb is the callback it passes to OnSuccess / OnFailure.
Callees(f, op, cb) ==
    IF op = "Result"
    THEN {[stack |-> st, spawn |-> {}] : st \in EnterResult(f)}
    ELSE IF op = "Then"
    THEN {[stack |-> <<[Frame("Then", "link", f) EXCEPT !.kind = "ok"]>>,
           spawn |-> sp] : sp \in EnterThen(f)}
    ELSE IF op \in {"OnSuccess", "OnFailure"}
    THEN {[stack |-> <<[Frame(op, "lock", f) EXCEPT !.cb = cb]>>, spawn |-> {}]}
    ELSE {[stack |-> <<Frame(op, "lock", f)>>, spawn |-> {}]}

\* A callback with a body calls the first operation of its body on the future
\* it was registered on.
CallbackCall(ctx) ==
    LET fr == Top(ctx.stack)
        f  == fr.f
        op == Head(fr.cb.body)
        cb == Callback(fr.cb.id, Tail(fr.cb.body))
    IN  /\ At(ctx, "callback", "call")
        /\ \E callee \in Callees(f, op, cb) :
              Put(ctx, SetTop(ctx.stack, [fr EXCEPT !.pc = "body"]) \o callee.stack,
                  callee.spawn)
        /\ trace' = [trace EXCEPT
                        ![f].calls = @ \cup ({op} \cap {"Start", "Result", "Then"}),
                        ![f].regs = @ \cup (IF op \in {"OnSuccess", "OnFailure"}
                                            THEN {<<cb, op>>} ELSE {})]
        /\ UNCHANGED <<futures, ncalls>>

\* A callback given to OnSuccess / OnFailure runs and returns.
CallbackBody(ctx) ==
    LET fr == Top(ctx.stack)
    IN  /\ At(ctx, "callback", "body")
        /\ trace' = [trace EXCEPT ![fr.f].ended = Append(@, fr.cb)]
        /\ Put(ctx, Pop(ctx.stack), {})
        /\ UNCHANGED <<futures, ncalls>>

\* Result that reads f.result, f.err without waiting for f.done.
ResultNoWait(ctx) ==
    LET fr == Top(ctx.stack)
        f  == fr.f
    IN  /\ At(ctx, "Result", "wait")
        /\ ~futures[f].mutex
        /\ trace' = [trace EXCEPT ![f].returned =
                        Append(@, <<futures[f].result, futures[f].err>>)]
        /\ Put(ctx, Return(ctx.stack, futures[f].result, futures[f].err), {})
        /\ UNCHANGED <<futures, ncalls>>

\* ---- Future.Result -------------------------------------------------------
\* Lines 118-122: <-f.done, then return f.result, f.err under the mutex.
Result(ctx) ==
    LET fr == Top(ctx.stack)
        f  == fr.f
    IN  /\ At(ctx, "Result", "wait")
        /\ futures[f].done
        /\ ~futures[f].mutex
        /\ trace' = [trace EXCEPT ![f].returned =
                        Append(@, <<futures[f].result, futures[f].err>>)]
        /\ Put(ctx, Return(ctx.stack, futures[f].result, futures[f].err), {})
        /\ UNCHANGED <<futures, ncalls>>

\* ---- Future.State --------------------------------------------------------
State(ctx) ==
    LET fr == Top(ctx.stack)
        f  == fr.f
    IN  /\ At(ctx, "State", "lock")
        /\ ~futures[f].mutex
        /\ trace' = [trace EXCEPT ![f].lastState = futures[f].state]
        /\ Put(ctx, Return(ctx.stack, futures[f].state, Nil), {})
        /\ UNCHANGED <<futures, ncalls>>

\* Then that starts the future it returns on the spot: nextFuture is Running
\* and its goroutine is spawned before Then returns.
ThenLinkEager(ctx) ==
    LET fr == Top(ctx.stack)
        f  == fr.f
        nextFuture == Cardinality(DOMAIN futures) + 1
    IN  /\ At(ctx, "Then", "link")
        /\ ~futures[f].mutex
        /\ futures' = [futures EXCEPT ![f].next = nextFuture]
                      @@ (nextFuture :>
                            [NewFuture([parent |-> f, kind |-> fr.kind])
                                EXCEPT !.started = TRUE, !.state = Running])
        /\ trace' = trace @@ (nextFuture :> NoTrace)
        /\ Put(ctx, Pop(ctx.stack), {<<Frame("run", "task", nextFuture)>>})
        /\ UNCHANGED ncalls

\* Then that also starts the future it returns.
ThenLinkStartsNext(ctx) ==
    LET fr == Top(ctx.stack)
        f  == fr.f
        nextFuture == Cardinality(DOMAIN futures) + 1
    IN  /\ At(ctx, "Then", "link")
        /\ ~futures[f].mutex
        /\ futures' = [futures EXCEPT ![f].next = nextFuture]
                      @@ (nextFuture :> NewFuture([parent |-> f, kind |-> fr.kind]))
        /\ trace' = trace @@ (nextFuture :> NoTrace)
        /\ Put(ctx, Pop(ctx.stack), {<<Frame("Start", "lock", nextFuture)>>})
        /\ UNCHANGED ncalls

\* ---- Future.Then ---------------------------------------------------------
\* Lines 40-56: build nextFuture, record it as f.next, return it.
ThenLink(ctx) ==
    LET fr == Top(ctx.stack)
        f  == fr.f
        nextFuture == Cardinality(DOMAIN futures) + 1
    IN  /\ At(ctx, "Then", "link")
        /\ ~futures[f].mutex
        /\ futures' = [futures EXCEPT ![f].next = nextFuture]
                      @@ (nextFuture :> NewFuture([parent |-> f, kind |-> fr.kind]))
        /\ trace' = trace @@ (nextFuture :> NoTrace)
        /\ Put(ctx, Pop(ctx.stack), {})
        /\ UNCHANGED ncalls

\* The chained task that calls nextTask even when the parent failed.
TaskGotIgnoresErr(ctx) ==
    LET fr == Top(ctx.stack)
        f  == fr.f
        out == Outcome(futures[f].task.kind, f, fr.res)
    IN  /\ At(ctx, "task", "got")
        /\ trace' = [trace EXCEPT ![f].contArgs = Append(@, fr.res),
                                  ![f].produced = Append(@, out)]
        /\ Put(ctx, Return(ctx.stack, out[1], out[2]), {})
        /\ UNCHANGED <<futures, ncalls>>

\* The chained task that calls nextTask with the zero value instead of the
\* parent's result.
TaskGotDropsValue(ctx) ==
    LET fr == Top(ctx.stack)
        f  == fr.f
        out == IF fr.err # Nil THEN <<Nil, fr.err>>
               ELSE Outcome(futures[f].task.kind, f, Nil)
    IN  /\ At(ctx, "task", "got")
        /\ trace' = [trace EXCEPT
                        ![f].contArgs = IF fr.err # Nil THEN @ ELSE Append(@, Nil),
                        ![f].produced = Append(@, out)]
        /\ Put(ctx, Return(ctx.stack, out[1], out[2]), {})
        /\ UNCHANGED <<futures, ncalls>>

\* The chained task that gets the parent's outcome only while its future is
\* the parent's recorded successor; an overwritten child gets the zero value.
TaskGotOnlySuccessor(ctx) ==
    LET fr == Top(ctx.stack)
        f  == fr.f
        linked == futures[futures[f].task.parent].next = f
        arg == IF linked THEN fr.res ELSE Nil
        out == IF linked /\ fr.err # Nil THEN <<Nil, fr.err>>
               ELSE Outcome(futures[f].task.kind, f, arg)
    IN  /\ At(ctx, "task", "got")
        /\ trace' = [trace EXCEPT
                        ![f].contArgs = IF linked /\ fr.err # Nil THEN @
                                        ELSE Append(@, arg),
                        ![f].produced = Append(@, out)]
        /\ Put(ctx, Return(ctx.stack, out[1], out[2]), {})
        /\ UNCHANGED <<futures, ncalls>>

\* Lines 43-48: propagate the parent's error, or call nextTask(result).
TaskGot(ctx) ==
    LET fr == Top(ctx.stack)
        f  == fr.f
        out == IF fr.err # Nil THEN <<Nil, fr.err>>
               ELSE Outcome(futures[f].task.kind, f, fr.res)
    IN  /\ At(ctx, "task", "got")
        /\ trace' = [trace EXCEPT
                        ![f].contArgs = IF fr.err # Nil THEN @ ELSE Append(@, fr.res),
                        ![f].produced = Append(@, out)]
        /\ Put(ctx, Return(ctx.stack, out[1], out[2]), {})
        /\ UNCHANGED <<futures, ncalls>>

\* OnSuccess that, on a Fulfilled future, runs the callback and queues it too.
OnSuccessLateAppends(ctx) ==
    LET fr == Top(ctx.stack)
        f  == fr.f
    IN  /\ At(ctx, "OnSuccess", "lock")
        /\ ~futures[f].mutex
        /\ IF futures[f].state = Fulfilled
           THEN /\ futures' = [futures EXCEPT ![f].mutex = TRUE,
                                              ![f].onSuccess = Append(@, fr.cb)]
                /\ trace' = [trace EXCEPT ![f].begun = Append(@,
                                [cb |-> fr.cb, res |-> futures[f].result,
                                 err |-> Nil, late |-> TRUE])]
                /\ Put(ctx, Push(SetTop(ctx.stack, [fr EXCEPT !.pc = "unlock"]),
                                 CallbackFrame(f, fr.cb)), {})
           ELSE /\ futures' = [futures EXCEPT ![f].onSuccess = Append(@, fr.cb)]
                /\ Put(ctx, Pop(ctx.stack), {})
                /\ UNCHANGED trace
        /\ UNCHANGED ncalls

\* OnSuccess that always queues the callback, whatever the state.
OnSuccessAlwaysAppends(ctx) ==
    LET fr == Top(ctx.stack)
        f  == fr.f
    IN  /\ At(ctx, "OnSuccess", "lock")
        /\ ~futures[f].mutex
        /\ futures' = [futures EXCEPT ![f].onSuccess = Append(@, fr.cb)]
        /\ Put(ctx, Pop(ctx.stack), {})
        /\ UNCHANGED <<trace, ncalls>>

\* OnFailure that fires at once on any terminal state, Fulfilled included.
OnFailureOnTerminal(ctx) ==
    LET fr == Top(ctx.stack)
        f  == fr.f
    IN  /\ At(ctx, "OnFailure", "lock")
        /\ ~futures[f].mutex
        /\ IF futures[f].state \in Terminal
           THEN /\ futures' = [futures EXCEPT ![f].mutex = TRUE]
                /\ trace' = [trace EXCEPT ![f].begun = Append(@,
                                [cb |-> fr.cb, res |-> Nil,
                                 err |-> futures[f].err, late |-> TRUE])]
                /\ Put(ctx, Push(SetTop(ctx.stack, [fr EXCEPT !.pc = "unlock"]),
                                 CallbackFrame(f, fr.cb)), {})
           ELSE /\ futures' = [futures EXCEPT ![f].onFailure = Append(@, fr.cb)]
                /\ Put(ctx, Pop(ctx.stack), {})
                /\ UNCHANGED trace
        /\ UNCHANGED ncalls

\* OnSuccess that releases the mutex before it runs the callback of a
\* Fulfilled future.
OnSuccessLateUnlocked(ctx) ==
    LET fr == Top(ctx.stack)
        f  == fr.f
    IN  /\ At(ctx, "OnSuccess", "lock")
        /\ ~futures[f].mutex
        /\ IF futures[f].state = Fulfilled
           THEN /\ trace' = [trace EXCEPT ![f].begun = Append(@,
                                [cb |-> fr.cb, res |-> futures[f].result,
                                 err |-> Nil, late |-> TRUE])]
                /\ Put(ctx, Push(SetTop(ctx.stack, [fr EXCEPT !.pc = "unlock"]),
                                 CallbackFrame(f, fr.cb)), {})
                /\ UNCHANGED futures
           ELSE /\ futures' = [futures EXCEPT ![f].onSuccess = Append(@, fr.cb)]
                /\ Put(ctx, Pop(ctx.stack), {})
                /\ UNCHANGED trace
        /\ UNCHANGED ncalls

\* ---- Future.OnSuccess / Future.OnFailure ---------------------------------
\* The callback runs at once, under the mutex, if the state already matches.
OnSuccess(ctx) ==
    LET fr == Top(ctx.stack)
        f  == fr.f
    IN  /\ At(ctx, "OnSuccess", "lock")
        /\ ~futures[f].mutex
        /\ IF futures[f].state = Fulfilled
           THEN /\ futures' = [futures EXCEPT ![f].mutex = TRUE]
                /\ trace' = [trace EXCEPT ![f].begun = Append(@,
                                [cb |-> fr.cb, res |-> futures[f].result,
                                 err |-> Nil, late |-> TRUE])]
                /\ Put(ctx, Push(SetTop(ctx.stack, [fr EXCEPT !.pc = "unlock"]),
                                 CallbackFrame(f, fr.cb)), {})
           ELSE /\ futures' = [futures EXCEPT ![f].onSuccess = Append(@, fr.cb)]
                /\ Put(ctx, Pop(ctx.stack), {})
                /\ UNCHANGED trace
        /\ UNCHANGED ncalls

OnFailure(ctx) ==
    LET fr == Top(ctx.stack)
        f  == fr.f
    IN  /\ At(ctx, "OnFailure", "lock")
        /\ ~futures[f].mutex
        /\ IF futures[f].state = Rejected
           THEN /\ futures' = [futures EXCEPT ![f].mutex = TRUE]
                /\ trace' = [trace EXCEPT ![f].begun = Append(@,
                                [cb |-> fr.cb, res |-> Nil,
                                 err |-> futures[f].err, late |-> TRUE])]
                /\ Put(ctx, Push(SetTop(ctx.stack, [fr EXCEPT !.pc = "unlock"]),
                                 CallbackFrame(f, fr.cb)), {})
           ELSE /\ futures' = [futures EXCEPT ![f].onFailure = Append(@, fr.cb)]
                /\ Put(ctx, Pop(ctx.stack), {})
                /\ UNCHANGED trace
        /\ UNCHANGED ncalls

\* defer f.mutex.Unlock() of OnSuccess / OnFailure, after the callback returned.
Unlock(ctx) ==
    LET fr == Top(ctx.stack)
    IN  /\ Top(ctx.stack).op \in {"OnSuccess", "OnFailure"}
        /\ Top(ctx.stack).pc = "unlock"
        /\ futures' = [futures EXCEPT ![fr.f].mutex = FALSE]
        /\ Put(ctx, Pop(ctx.stack), {})
        /\ UNCHANGED <<trace, ncalls>>

Calls ==
    /\ ncalls < MaxCalls
    /\ \E t \in Threads : \E f \in DOMAIN futures :
        \/ CallStart(t, f)
        \/ CallResult(t, f)
        \/ CallState(t, f)
        \/ \E k \in Kinds : CallThen(t, f, k)
        \/ CallOnSuccess(t, f)
        \/ CallOnFailure(t, f)

Steps ==
    \E ctx \in Contexts :
        \/ Start(ctx)
        \/ RunTask(ctx)
        \/ TaskGot(ctx)
        \/ RunComplete(ctx)
        \/ RunCallback(ctx)
        \/ RunClose(ctx)
        \/ CallbackBody(ctx)
        \/ Result(ctx)
        \/ State(ctx)
        \/ ThenLink(ctx)
        \/ OnSuccess(ctx)
        \/ OnFailure(ctx)
        \/ Unlock(ctx)

Next == Calls \/ Steps

Spec == Init /\ [][Next]_vars

\* The scheduler keeps running whatever thread or goroutine can take a step;
\* the callers are free to stop calling.
FairSpec == Spec /\ WF_vars(Steps)

\* ---- callbacks on one future ---------------------------------------------
\* The callers register callbacks on a future and start it, one call more
\* than in Spec, so that two registrations can precede the completion.
CallbackCalls ==
    /\ ncalls < MaxCalls + 1
    /\ \E t \in Threads : \E f \in DOMAIN futures :
        \/ CallStart(t, f)
        \/ CallOnSuccess(t, f)
        \/ CallOnFailure(t, f)

CallbackSteps ==
    \E ctx \in Contexts :
        \/ Start(ctx)
        \/ RunTask(ctx)
        \/ RunComplete(ctx)
        \/ RunCallback(ctx)
        \/ RunClose(ctx)
        \/ CallbackBody(ctx)
        \/ OnSuccess(ctx)
        \/ OnFailure(ctx)
        \/ Unlock(ctx)

CallbackNext == CallbackCalls \/ CallbackSteps

CallbackSpec == Init /\ [][CallbackNext]_vars

\* ---- chains without callbacks --------------------------------------------
\* The callers build chains with Then and trigger links with Start or Result.
ChainCall(t, f, links) ==
    \/ CallStart(t, f)
    \/ CallResult(t, f)
    \/ \E k \in Kinds : CallThenWithin(t, f, k, links)

ChainCalls ==
    /\ ncalls < MaxCalls
    /\ \E t \in Threads : \E f \in DOMAIN futures : ChainCall(t, f, MaxFutures)

ChainSteps ==
    \E ctx \in Contexts :
        \/ Start(ctx)
        \/ RunTask(ctx)
        \/ TaskGot(ctx)
        \/ RunComplete(ctx)
        \/ RunClose(ctx)
        \/ Result(ctx)
        \/ ThenLink(ctx)

ChainNext == ChainCalls \/ ChainSteps

FairChainSpec == Init /\ [][ChainNext]_vars /\ WF_vars(ChainSteps)

\* One call and one future more, so that a parent can have two children and
\* a child can be triggered.
FanCalls ==
    /\ ncalls < MaxCalls + 1
    /\ \E t \in Threads : \E f \in DOMAIN futures : ChainCall(t, f, MaxFutures + 1)

FanNext == FanCalls \/ ChainSteps

FanSpec == Init /\ [][FanNext]_vars

\* ---- callbacks that call back into their future ---------------------------
\* The bodies of the callbacks the callers register: plain, one call on the
\* same future, or the registration of a callback that is plain or calls
\* State().
Bodies ==
    {<<>>}
    \cup {<<op>> : op \in {"State", "Start", "Then", "Result"}}
    \cup {<<op>> \o body : op \in {"OnSuccess", "OnFailure"},
                           body \in {<<>>, <<"State">>}}

\* The callers start the future they constructed, block on it and register
\* callbacks on it.
ReentrantCalls ==
    /\ ncalls < MaxCalls
    /\ \E t \in Threads :
        \/ CallStart(t, 1)
        \/ CallResult(t, 1)
        \/ \E body \in Bodies : CallOnSuccessWith(t, 1, body)
        \/ \E body \in Bodies : CallOnFailureWith(t, 1, body)

\* The step the thread or goroutine ctx can take.
ReentrantStep(ctx) ==
    \/ Start(ctx)
    \/ RunTask(ctx)
    \/ RunComplete(ctx)
    \/ RunCallback(ctx)
    \/ RunClose(ctx)
    \/ CallbackCall(ctx)
    \/ CallbackBody(ctx)
    \/ Result(ctx)
    \/ State(ctx)
    \/ ThenLink(ctx)
    \/ OnSuccess(ctx)
    \/ OnFailure(ctx)
    \/ Unlock(ctx)

ReentrantSteps == \E ctx \in Contexts : ReentrantStep(ctx)

ReentrantNext == ReentrantCalls \/ ReentrantSteps

ReentrantSpec == Init /\ [][ReentrantNext]_vars

\* ---- properties ----------------------------------------------------------
Futures == DOMAIN futures

\* The goroutines of Start that have not called f.task() yet.
PendingRuns(f) == CopiesIn(<<Frame("run", "task", f)>>, goroutines)

\* What Result must return for a task that returned out: the zero value with
\* the error on failure, the value with a nil error on success.
Final(out) == IF out[2] # Nil THEN <<Nil, out[2]>> ELSE out

\* The callbacks waiting in the list that matches the terminal state of f.
Matching(f) ==
    IF futures[f].state = Fulfilled THEN futures[f].onSuccess
    ELSE IF futures[f].state = Rejected THEN futures[f].onFailure
    ELSE <<>>

Range(seq) == {seq[i] : i \in 1..Len(seq)}

\* C1: the task of a future is invoked exactly once: never before the future
\* is started, and once it is started the single invocation has happened or
\* is pending in the one goroutine Start spawns; never twice.
C1_TaskExactlyOnce ==
    \A f \in Futures :
        /\ trace[f].taskCalls <= 1
        /\ IF futures[f].started
           THEN trace[f].taskCalls + PendingRuns(f) = 1
           ELSE trace[f].taskCalls + PendingRuns(f) = 0
        /\ futures[f].state \in Terminal => trace[f].taskCalls = 1

\* Several threads raced to start the future and its task has run once.
C1_Witness ==
    \E f \in Futures :
        /\ trace[f].taskCalls = 1
        /\ Cardinality(trace[f].calls) >= 2
        /\ futures[f].state \in Terminal

\* C2: the state of a future only steps Pending -> Running -> Fulfilled or
\* Rejected, and once State() has returned a terminal state it returns that
\* state ever after.
C2_StateForward ==
    [][\A f \in Futures :
          /\ \/ futures'[f].state = futures[f].state
             \/ futures[f].state = Pending /\ futures'[f].state = Running
             \/ futures[f].state = Running /\ futures'[f].state \in Terminal
          /\ trace[f].lastState \in Terminal
                => trace'[f].lastState = trace[f].lastState]_vars

\* State() returned a terminal state of a future that went through Running.
C2_Witness ==
    \E f \in Futures :
        /\ trace[f].lastState = Rejected
        /\ futures[f].state = Rejected
        /\ "Start" \in trace[f].calls

\* C3: the done channel is closed at most once, and whenever it is closed the
\* state is terminal and result/err hold the outcome of the task, which is
\* what every Result() that has returned gave back.
C3_DoneAfterTerminal ==
    \A f \in Futures :
        /\ trace[f].closes <= 1
        /\ futures[f].done =>
              /\ trace[f].closes = 1
              /\ futures[f].state \in Terminal
              /\ Len(trace[f].produced) = 1
              /\ <<futures[f].result, futures[f].err>> = Final(trace[f].produced[1])
              /\ (futures[f].state = Rejected) = (futures[f].err # Nil)
        /\ trace[f].returned # <<>> => futures[f].done

\* A closed done channel whose waiter has read a failure.
C3_Witness ==
    \E f \in Futures :
        /\ futures[f].done
        /\ futures[f].err # Nil
        /\ trace[f].returned # <<>>

\* C4: once a Result() call on a future has returned, every callback waiting
\* in the list of the matching outcome has been called and has returned.
C4_ResultAfterCallbacks ==
    \A f \in Futures :
        trace[f].returned # <<>> =>
            /\ futures[f].state \in Terminal
            /\ Range(Matching(f)) \subseteq Range(trace[f].ended)

\* Result() returned on a future that had a callback queued at completion.
C4_Witness ==
    \E f \in Futures :
        /\ trace[f].returned # <<>>
        /\ Matching(f) # <<>>

RECURSIVE Ancestors(_)
Ancestors(f) ==
    LET p == futures[f].task.parent
    IN  IF p = 0 THEN {} ELSE {p} \cup Ancestors(p)

\* Thread t is inside a Result() call on f.
InResult(t, f) ==
    /\ threads[t] # <<>>
    /\ threads[t][1].op = "Result"
    /\ threads[t][1].f = f

\* Thread t is inside a Then() call on f.
InThen(t, f) ==
    /\ threads[t] # <<>>
    /\ threads[t][1].op = "Then"
    /\ threads[t][1].f = f

\* Every Result() on f that has returned gave back the task's one outcome.
ReturnedOutcome(f) ==
    /\ Len(trace[f].produced) = 1
    /\ \A i \in 1..Len(trace[f].returned) :
          trace[f].returned[i] = Final(trace[f].produced[1])

\* C5: a Result() call on a future nobody called Start on eventually returns,
\* and what Result() returns is the outcome of the task: its value with a nil
\* error on success, its error on failure.
C5_AutoStart ==
    \A t \in Threads : \A f \in 1..MaxFutures :
        (IF f \in Futures
         THEN InResult(t, f) /\ "Start" \notin trace[f].calls
         ELSE FALSE)
            ~> (IF f \in Futures
                THEN /\ threads[t] = <<>>
                     /\ trace[f].returned # <<>>
                     /\ ReturnedOutcome(f)
                ELSE FALSE)

\* Result() returned on a chained future that only Result ever started.
C5_Witness ==
    \E f \in Futures :
        /\ trace[f].returned # <<>>
        /\ trace[f].calls = {"Result"}
        /\ futures[f].task.parent # 0

\* C6: all the Result() calls on a future return the same (value, error)
\* pair, the outcome of its task.
C6_ResultIdempotent ==
    \A f \in Futures :
        /\ \A i, j \in 1..Len(trace[f].returned) :
              trace[f].returned[i] = trace[f].returned[j]
        /\ trace[f].returned # <<>> => ReturnedOutcome(f)

\* Two Result() calls on the same future have returned.
C6_Witness ==
    \E f \in Futures : Len(trace[f].returned) >= 2

\* C7: below a link that is Rejected no continuation is ever called, no link
\* is Fulfilled, a link that has completed is Rejected with that same error
\* and a nil result, and that is what its Result() returns.
C7_FailurePropagates ==
    \A f \in Futures : \A a \in Ancestors(f) :
        futures[a].state = Rejected =>
            /\ trace[f].contArgs = <<>>
            /\ futures[f].state # Fulfilled
            /\ futures[f].state = Rejected =>
                  /\ futures[f].err = futures[a].err
                  /\ futures[f].result = Nil
            /\ \A i \in 1..Len(trace[f].returned) :
                  trace[f].returned[i] = <<Nil, futures[a].err>>

\* The seed of a chain failed and Result() of the link below it returned.
C7_Witness ==
    \E f \in Futures : \E a \in Ancestors(f) :
        /\ futures[a].state = Rejected
        /\ futures[f].state = Rejected
        /\ trace[f].returned # <<>>

RECURSIVE AllOk(_)
AllOk(f) ==
    /\ futures[f].task.kind = "ok"
    /\ futures[f].task.parent # 0 => AllOk(futures[f].task.parent)

\* The continuations applied to the seed in link order.
RECURSIVE ChainValue(_)
ChainValue(f) ==
    LET p == futures[f].task.parent
    IN  Outcome("ok", f, IF p = 0 THEN Nil ELSE ChainValue(p))[1]

C9_ThenDoesNotStartNext ==
    \A f \in Futures :
        (futures[f].task.parent # 0 /\ trace[f].calls = {}) =>
            /\ futures[f].state = Pending
            /\ ~futures[f].started
            /\ trace[f].taskCalls = 0
            /\ trace[f].contArgs = <<>>
            /\ PendingRuns(f) = 0

\* The parent has completed and the untouched future Then returned is Pending.
C9_Witness ==
    \E f \in Futures :
        /\ futures[f].task.parent # 0
        /\ trace[f].calls = {}
        /\ futures[futures[f].task.parent].done
        /\ futures[f].state = Pending

\* C10: when Then is called on a future that is Pending, the future
\* eventually leaves Pending and its task is called, whatever else is or is
\* not called afterwards.
C10_ThenStartsParent ==
    \A f \in 1..MaxFutures :
        (IF f \in Futures
         THEN futures[f].state = Pending /\ \E t \in Threads : InThen(t, f)
         ELSE FALSE)
            ~> (IF f \in Futures
                THEN futures[f].state # Pending /\ trace[f].taskCalls = 1
                ELSE FALSE)

\* Then has returned while the parent it started is still Pending.
C10_Witness ==
    \E f \in Futures :
        /\ futures[f].next # 0
        /\ futures[f].state = Pending
        /\ trace[f].calls = {"Then"}

\* No caller thread has called Start or Result on any link so far.
NoStartOrResult ==
    \A g \in Futures : trace[g].direct \cap {"Start", "Result"} = {}

\* The calls of Start on f that are under way: in a goroutine of their own
\* or on top of some caller's or task's stack.
PendingStarts(f) ==
    Cardinality({ctx \in Contexts : At(ctx, "Start", "lock") /\ Top(ctx.stack).f = f})

\* C11 as stated: while the chain is built by Then calls alone (no Start and
\* no Result by the caller on any link), every link is still Pending and no
\* computation and no continuation has been invoked.
C11_NothingExecutes ==
    NoStartOrResult =>
        \A f \in Futures :
            /\ futures[f].state = Pending
            /\ trace[f].taskCalls = 0
            /\ trace[f].contArgs = <<>>

\* C11, amended: while the chain is built by Then calls alone, the links on
\* which Then has not been called are Pending, unstarted and uninvoked; a
\* link on which Then has been called is started by that call (its Start has
\* run or is under way), and only such links run their computation or
\* continuation.
C11_OnlyLastLinkWaits ==
    NoStartOrResult =>
        \A f \in Futures :
            IF "Then" \in trace[f].direct
            THEN futures[f].started \/ PendingStarts(f) > 0
            ELSE /\ futures[f].state = Pending
                 /\ ~futures[f].started
                 /\ trace[f].taskCalls = 0
                 /\ trace[f].contArgs = <<>>
                 /\ PendingRuns(f) = 0

\* A chain built by Then alone: the link Then was called on has run its
\* computation, the link Then returned is Pending.
C11_Witness ==
    /\ NoStartOrResult
    /\ \E f \in Futures :
          /\ futures[f].task.parent # 0
          /\ trace[f].direct = {}
          /\ futures[f].state = Pending
          /\ "Then" \in trace[futures[f].task.parent].direct
          /\ trace[futures[f].task.parent].taskCalls = 1
          /\ futures[futures[f].task.parent].state # Pending

\* The registration call of callback cb has not returned yet.
Registering(cb) ==
    \E ctx \in Contexts : \E i \in 1..Len(ctx.stack) :
        ctx.stack[i].op \in {"OnSuccess", "OnFailure"} /\ ctx.stack[i].cb = cb

\* How many times callback cb of future f has been invoked.
Invocations(f, cb) ==
    Cardinality({i \in 1..Len(trace[f].begun) : trace[f].begun[i].cb = cb})

\* C12: a callback that registration invoked on the spot (OnSuccess on a
\* Fulfilled future, OnFailure on a Rejected one) is invoked exactly once,
\* with the future's final value (or failure), it has returned before the
\* registration call returns, and it is in neither callback list.
C12_LateRegistration ==
    \A f \in Futures : \A i \in 1..Len(trace[f].begun) :
        LET e == trace[f].begun[i]
        IN  e.late =>
            /\ Invocations(f, e.cb) = 1
            /\ e.cb \notin Range(futures[f].onSuccess) \cup Range(futures[f].onFailure)
            /\ IF <<e.cb, "OnSuccess">> \in trace[f].regs
               THEN /\ futures[f].state = Fulfilled
                    /\ e.res = futures[f].result
                    /\ e.err = Nil
               ELSE /\ <<e.cb, "OnFailure">> \in trace[f].regs
                    /\ futures[f].state = Rejected
                    /\ e.err = futures[f].err
                    /\ e.err # Nil
            /\ e.cb \in Range(trace[f].ended) \/ Registering(e.cb)

\* OnSuccess on a Fulfilled future has returned, its callback invoked and
\* finished.
C12_Witness ==
    \E f \in Futures : \E i \in 1..Len(trace[f].begun) :
        LET e == trace[f].begun[i]
        IN  /\ e.late
            /\ <<e.cb, "OnSuccess">> \in trace[f].regs
            /\ e.cb \in Range(trace[f].ended)
            /\ ~Registering(e.cb)

\* The terminal state in which a callback registered by op fires.
FiresIn(op) == IF op = "OnSuccess" THEN Fulfilled ELSE Rejected

\* C18: every invocation of a success callback happens on a Fulfilled future
\* with its value, every invocation of a failure callback on a Rejected one
\* with its failure; a callback of the other kind is never invoked, whether
\* it was registered before or after completion.
C18_OneKindFires ==
    \A f \in Futures :
        /\ \A i \in 1..Len(trace[f].begun) :
              LET e == trace[f].begun[i]
              IN  IF <<e.cb, "OnSuccess">> \in trace[f].regs
                  THEN /\ futures[f].state = Fulfilled
                       /\ e.res = futures[f].result
                       /\ e.err = Nil
                  ELSE /\ <<e.cb, "OnFailure">> \in trace[f].regs
                       /\ futures[f].state = Rejected
                       /\ e.err = futures[f].err
                       /\ e.err # Nil
        /\ \A r \in trace[f].regs :
              (futures[f].state \in Terminal /\ futures[f].state # FiresIn(r[2]))
                  => Invocations(f, r[1]) = 0

\* A failure callback whose registration returned, on a future that completed
\* Fulfilled: it was not invoked.
C18_Witness ==
    \E f \in Futures : \E r \in trace[f].regs :
        /\ r[2] = "OnFailure"
        /\ ~Registering(r[1])
        /\ futures[f].state = Fulfilled
        /\ futures[f].done
        /\ Invocations(f, r[1]) = 0

\* The list a callback registered by op is queued in.
ListOf(f, op) ==
    IF op = "OnSuccess" THEN futures[f].onSuccess ELSE futures[f].onFailure

\* C19: however a registration interleaves with the completion, a callback
\* whose kind matches the outcome is invoked exactly once: never twice, and
\* once the registration has returned and the done channel is closed it has
\* been invoked and has returned; it was invoked by the completion path if
\* and only if it was queued, else on the spot by its registration.
C19_NeitherLostNorDoubled ==
    \A f \in Futures : \A r \in trace[f].regs :
        /\ Invocations(f, r[1]) <= 1
        /\ (~Registering(r[1]) /\ futures[f].done /\ futures[f].state = FiresIn(r[2]))
              => /\ Invocations(f, r[1]) = 1
                 /\ r[1] \in Range(trace[f].ended)
        /\ \A i \in 1..Len(trace[f].begun) :
              trace[f].begun[i].cb = r[1] =>
                  (trace[f].begun[i].late <=> r[1] \notin Range(ListOf(f, r[2])))

\* A success callback queued while the future was running has been invoked
\* by the completion path, and the done channel is closed.
C19_Witness ==
    \E f \in Futures : \E i \in 1..Len(trace[f].begun) :
        LET e == trace[f].begun[i]
        IN  /\ ~e.late
            /\ <<e.cb, "OnSuccess">> \in trace[f].regs
            /\ e.cb \in Range(trace[f].ended)
            /\ futures[f].done

\* The callbacks the completion path of f has invoked so far, in order.
FiredByCompletion(f) ==
    LET q == SelectSeq(trace[f].begun, LAMBDA e : ~e.late)
    IN  [i \in 1..Len(q) |-> q[i].cb]

\* C13: the completion path invokes the callbacks queued for the outcome in
\* the order of their registration (the order of the list they were appended
\* to), each one once, and a callback is begun only after the one before it
\* has returned.
C13_RegistrationOrder ==
    \A f \in Futures :
        LET q == FiredByCompletion(f)
        IN  /\ Len(q) <= Len(Matching(f))
            /\ \A i \in 1..Len(q) : q[i] = Matching(f)[i]
            /\ \A i \in 1..(Len(q) - 1) : q[i] \in Range(trace[f].ended)
            /\ futures[f].done => Len(q) = Len(Matching(f))

\* Two callbacks queued for the outcome have both been invoked by the
\* completion path and have returned.
C13_Witness ==
    \E f \in Futures :
        /\ Len(FiredByCompletion(f)) >= 2
        /\ Range(FiredByCompletion(f)) \subseteq Range(trace[f].ended)
        /\ futures[f].done

\* Link f and every link before it in its chain.
UpTo(f) == {f} \cup Ancestors(f)

\* C16: once a caller has called Start or Result on a link of a chain, that
\* link and every link before it reach a terminal state and close their done
\* channel, and no Result() call on the link is left waiting, whether or not
\* anything was called on the earlier links.
C16_ChainProgress ==
    \A f \in 1..MaxFutures :
        (IF f \in Futures
         THEN trace[f].direct \cap {"Start", "Result"} # {}
         ELSE FALSE)
            ~> (IF f \in Futures
                THEN /\ \A a \in UpTo(f) :
                          futures[a].state \in Terminal /\ futures[a].done
                     /\ \A t \in Threads : ~InResult(t, f)
                ELSE FALSE)

\* A chain on whose last link alone Start or Result was called has completed
\* in all its links.
C16_Witness ==
    \E f \in Futures :
        /\ Ancestors(f) # {}
        /\ trace[f].direct \cap {"Start", "Result"} # {}
        /\ \A a \in Ancestors(f) : trace[a].direct \subseteq {"Then"}
        /\ \A a \in UpTo(f) : futures[a].state \in Terminal /\ futures[a].done
        /\ \A t \in Threads : ~InResult(t, f)

\* The futures Then has returned for parent p.
Children(p) == {c \in Futures : futures[c].task.parent = p}

\* C20: every Then on a parent yields a child of its own; however many
\* children there are the parent's computation runs at most once (once when
\* the parent has completed), and every child that has completed got the
\* parent's one outcome, the value through its own continuation or the
\* failure unchanged, whether or not it still is the parent's recorded
\* successor.
C20_FanOut ==
    \A p \in Futures :
        /\ trace[p].taskCalls <= 1
        /\ futures[p].state \in Terminal => trace[p].taskCalls = 1
        /\ futures[p].next # 0 => futures[p].next \in Children(p)
        /\ \A c \in Children(p) :
              /\ trace[c].contArgs # <<>> =>
                    /\ futures[p].state = Fulfilled
                    /\ trace[c].contArgs = <<futures[p].result>>
              /\ futures[c].state \in Terminal =>
                    IF futures[p].state = Rejected
                    THEN /\ futures[c].state = Rejected
                         /\ futures[c].err = futures[p].err
                         /\ trace[c].contArgs = <<>>
                    ELSE /\ futures[p].state = Fulfilled
                         /\ trace[c].contArgs = <<futures[p].result>>
                         /\ <<futures[c].result, futures[c].err>> =
                               Final(Outcome(futures[c].task.kind, c, futures[p].result))

\* A parent with two children: the one whose link was overwritten has
\* completed with the parent's outcome, the other is still Pending.
C20_Witness ==
    \E p \in Futures : \E c, d \in Children(p) :
        /\ c # d
        /\ futures[p].next = d
        /\ futures[c].done
        /\ futures[c].state \in Terminal
        /\ futures[d].state = Pending

\* No thread and no goroutine can take a step.
Quiescent == ~ENABLED ReentrantSteps

\* Frame i of stack s is a callback invoked by the completion path of Start.
InCompletion(s, i) == i >= 2 /\ s[i].op = "callback" /\ s[i - 1].op = "run"

\* Frame i of stack s is a callback invoked on the spot by its registration.
InLate(s, i) ==
    i >= 2 /\ s[i].op = "callback" /\ s[i - 1].op \in {"OnSuccess", "OnFailure"}

\* The stack is inside a registration that holds the mutex of f while the
\* callback it invoked runs.
HoldsMutex(s, f) ==
    \E i \in 1..Len(s) :
        s[i].op \in {"OnSuccess", "OnFailure"} /\ s[i].pc = "unlock" /\ s[i].f = f

\* A callback invoked on the spot by its registration has called an operation
\* of the same future, and the call has not returned.
LateReentry(s) == \E i \in 1..Len(s) : InLate(s, i) /\ Len(s) > i

\* The operations C14 lets a callback call on its own future.
Reentries == {"State", "OnSuccess", "OnFailure", "Start", "Then"}

\* The calls of operations in ops that callbacks of the completion path have
\* made and that have not returned: the stack and the callback's frame.
PendingCompletionCalls(ops) ==
    {p \in UNION {{<<ctx, i>> : i \in 1..(Len(ctx.stack) - 1)} : ctx \in Contexts} :
        /\ InCompletion(p[1].stack, p[2])
        /\ Head(p[1].stack[p[2]].cb.body) \in ops}

\* C14 as stated: every call of State, OnSuccess, OnFailure, Start or Then
\* that a callback of the completion path makes on its own future returns;
\* when nothing can take a step any more, no such call is left waiting.
C14_CallsReturn ==
    Quiescent => PendingCompletionCalls(Reentries) = {}

\* C14, amended: the completing goroutine does not hold the mutex while its
\* callbacks run, so when a call its callback makes finds the mutex locked,
\* another thread or goroutine holds it inside a registration; and when
\* nothing can take a step any more, a call of State, OnSuccess, OnFailure,
\* Start or Then by such a callback is left waiting only if some callback
\* that a registration invoked on the spot has called back into the future.
C14_NoSelfDeadlock ==
    /\ \A p \in PendingCompletionCalls(Reentries) :
          LET s == p[1].stack
              f == s[p[2]].f
          IN  /\ ~HoldsMutex(SubSeq(s, 1, p[2]), f)
              /\ (Len(s) = p[2] + 1 /\ Top(s).pc # "unlock" /\ futures[f].mutex) =>
                    \E other \in Contexts \ {p[1]} : HoldsMutex(other.stack, f)
    /\ Quiescent =>
          (PendingCompletionCalls(Reentries) # {}
              => \E ctx \in Contexts : LateReentry(ctx.stack))

\* A callback fired by the completion path has called OnSuccess on its own
\* future, and the call has returned.
C14_Witness ==
    \E ctx \in Contexts : \E i \in 1..Len(ctx.stack) :
        /\ InCompletion(ctx.stack, i)
        /\ Len(ctx.stack) = i
        /\ ctx.stack[i].pc = "body"
        /\ ctx.stack[i].cb.body # <<>>
        /\ Head(ctx.stack[i].cb.body) = "OnSuccess"

\* In every callback of the completion path in which a State() call has
\* returned, it returned the terminal state the future is in.
StateSeenInCallback ==
    \A ctx \in Contexts : \A i \in 1..Len(ctx.stack) :
        ( /\ InCompletion(ctx.stack, i)
          /\ Len(ctx.stack) = i
          /\ ctx.stack[i].pc = "body"
          /\ ctx.stack[i].cb.body = <<"State">> )
            => /\ ctx.stack[i].res \in Terminal
               /\ ctx.stack[i].res = futures[ctx.stack[i].f].state

\* C15 as stated: State() called from inside a callback of the completion
\* path returns the terminal state, and Result() called from inside it on
\* the same future returns; when nothing can take a step any more, no such
\* Result() call is left waiting.
C15_ObservesCompleted ==
    /\ StateSeenInCallback
    /\ Quiescent => PendingCompletionCalls({"Result"}) = {}

\* C15, amended: State() called from inside a callback of the completion path
\* returns the terminal state, and the outcome is stored; but the done
\* channel is not closed while such a callback runs, so a Result() call it
\* makes on the same future waits and never returns.
C15_StateButNotResult ==
    /\ StateSeenInCallback
    /\ \A ctx \in Contexts : \A i \in 1..Len(ctx.stack) :
          InCompletion(ctx.stack, i) =>
              LET f == ctx.stack[i].f
              IN  /\ futures[f].state \in Terminal
                  /\ <<futures[f].result, futures[f].err>>
                        = Final(trace[f].produced[1])
                  /\ ~futures[f].done
                  /\ trace[f].closes = 0
                  /\ trace[f].returned = <<>>
    /\ \A p \in PendingCompletionCalls({"Result"}) : ~ENABLED Result(p[1])

\* A callback of the completion path has called Result() on its own future:
\* the call waits for the done channel and nothing can take a step.
C15_Witness ==
    /\ Quiescent
    /\ \E p \in PendingCompletionCalls({"Result"}) :
          /\ Top(p[1].stack).op = "Result"
          /\ Top(p[1].stack).pc = "wait"
          /\ ~futures[Top(p[1].stack).f].done

====
